---- MODULE Spec2Model ----
(***************************************************************************)
(* ThreadBrain API (server/app/main.py): a FastAPI application with a CORS *)
(* middleware and four GET routes.                                         *)
(*                                                                         *)
(* Text the program analyses (CORS_ORIGINS, request origins) is a sequence *)
(* of one-character strings; text it only passes through (ENVIRONMENT,     *)
(* messages) is a TLA+ string. A path is a sequence of chunks, "/" or a    *)
(* segment name, so that "/users/" is <<"/", "users", "/">>.               *)
(*                                                                         *)
(* State is indexed by a run (a server process). The single-process        *)
(* specifications use run 1 only; SpecPair runs two processes side by side *)
(* on the same requests to compare them.                                   *)
(***************************************************************************)
EXTENDS Naturals, Sequences, FiniteSets, TLC

VARIABLES
    pc,           \* pc[r]: "boot" before main.py is imported, "serving" after
    environ,      \* environ[r]: os.environ of run r, a mapping name -> value
    cors_origins, \* cors_origins[r]: the module global of main.py:13
    startup_env,  \* startup_env[r]: os.environ as it was when main.py was imported
    client        \* client[r][c]: what client c of run r has sent and received

vars == <<pc, environ, cors_origins, startup_env, client>>

--------------------------------------------------------------------------
(* Bounds and input domains *)

MaxLen == 1

Runs == {1, 2}

Clients == {"c1", "c2"}

Chars == {"a", " ", ","}

Range(s) == {s[i] : i \in DOMAIN s}

StrUpTo(n) == UNION {[1..k -> Chars] : k \in 0..n}

\* "https://a.com,https://b.com", the value of the documented scenario
ExampleCors ==
    <<"h","t","t","p","s",":","/","/","a",".","c","o","m",",",
      "h","t","t","p","s",":","/","/","b",".","c","o","m">>

ExampleOriginA == <<"h","t","t","p","s",":","/","/","a",".","c","o","m">>

ExampleOriginB == <<"h","t","t","p","s",":","/","/","b",".","c","o","m">>

\* the Origin header values requests are sent with
Origins == {<<"a">>}

CorsValues == StrUpTo(MaxLen) \cup {ExampleCors}

EnvLabels == {"", "staging", "unknown"}

EnvNames == {"CORS_ORIGINS", "ENVIRONMENT"}

EnvValues(name) == IF name = "CORS_ORIGINS" THEN CorsValues ELSE EnvLabels

\* every os.environ over the two names: each is unset or set to a value
Environs ==
    {<<>>}
    \cup {("CORS_ORIGINS" :> v) : v \in CorsValues}
    \cup {("ENVIRONMENT" :> l) : l \in EnvLabels}
    \cup {("CORS_ORIGINS" :> v) @@ ("ENVIRONMENT" :> l) :
              v \in CorsValues, l \in EnvLabels}

EmptyEnv == <<>>

--------------------------------------------------------------------------
(* main.py:3,13,40  os.getenv and str.split *)

getenv(env, key, default) ==
    IF key \in DOMAIN env THEN env[key] ELSE default

\* the left-to-right scan of str.split(","): done holds the items already
\* closed by a comma, cur the item still open
RECURSIVE split_scan(_, _, _)
split_scan(s, done, cur) ==
    IF s = <<>> THEN Append(done, cur)
    ELSE IF Head(s) = "," THEN split_scan(Tail(s), Append(done, cur), <<>>)
    ELSE split_scan(Tail(s), done, Append(cur, Head(s)))

\* str.split replaced by a split that strips blanks and drops empty items
split_clean(s) ==
    SelectSeq(split_scan(SelectSeq(s, LAMBDA ch : ch # " "), <<>>, <<>>),
              LAMBDA item : item # <<>>)

split(s) == split_scan(s, <<>>, <<>>)

\* "http://localhost:5173"
DefaultCorsOrigins ==
    <<"h","t","t","p",":","/","/","l","o","c","a","l","h","o","s","t",
      ":","5","1","7","3">>

DefaultEnvironment == "unknown"

--------------------------------------------------------------------------
(* Requests and responses *)

Methods == {"GET", "POST", "OPTIONS"}

P_root == <<"/">>

P_users == <<"/", "users">>

P_health == <<"/", "health">>

P_test == <<"/", "test">>

P_openapi == <<"/", "openapi.json">>

P_docs == <<"/", "docs">>

P_oauth2 == <<"/", "docs", "/", "oauth2-redirect">>

P_redoc == <<"/", "redoc">>

Endpoints == {P_root, P_users, P_health, P_test}

Paths == Endpoints \cup {P_docs, <<"/", "users", "/">>, <<"/", "nope">>}

\* request header sets: none; Origin; Origin and Cookie; Origin and
\* Access-Control-Request-Method (what a browser's preflight carries)
HeaderSets ==
    {<<>>}
    \cup {("origin" :> o) : o \in Origins}
    \cup {("origin" :> o) @@ ("cookie" :> "sid=1") : o \in Origins}
    \cup {("origin" :> o) @@ ("access-control-request-method" :> m) :
              o \in Origins, m \in {"GET", "BREW"}}

Requests == [method : Methods, path : Paths, headers : HeaderSets]

\* plain and cross-origin GETs of the four endpoints
EndpointGets ==
    {q \in Requests : q.method = "GET" /\ q.path \in Endpoints
                      /\ "cookie" \notin DOMAIN q.headers
                      /\ "access-control-request-method" \notin DOMAIN q.headers}

NoReq == [method |-> "", path |-> <<>>, headers |-> <<>>]

NoResp == [status |-> 0, media |-> "", headers |-> <<>>, body |-> <<>>]

Idle == [st |-> "idle", req |-> NoReq, resp |-> NoResp]

JSONResponse(status, headers, body) ==
    [status |-> status, media |-> "application/json", headers |-> headers,
     body |-> body]

PlainTextResponse(status, headers, body) ==
    [status |-> status, media |-> "text/plain", headers |-> headers,
     body |-> body]

--------------------------------------------------------------------------
(* main.py:25-45  the route handlers *)

\* the message ends with the rocket emoji U+1F680, written here as (rocket)
root(r) ==
    [message |-> "FastAPI backend is running (rocket)", status |-> "healthy"]

\* the second record repeats the id of the first
get_users_duplicate_id(r) ==
    << [id |-> 1, name |-> <<"N","i","k">>,
        email |-> <<"n","i","k","@","e","x","a","m","p","l","e",".","c","o","m">>],
       [id |-> 1, name |-> <<"K","e","v">>,
        email |-> <<"k","e","v","@","e","x","a","m","p","l","e",".","c","o","m">>] >>

get_users(r) ==
    << [id |-> 1, name |-> <<"N","i","k">>,
        email |-> <<"n","i","k","@","e","x","a","m","p","l","e",".","c","o","m">>],
       [id |-> 2, name |-> <<"K","e","v">>,
        email |-> <<"k","e","v","@","e","x","a","m","p","l","e",".","c","o","m">>] >>

\* ENVIRONMENT taken from the startup snapshot instead of os.environ
health_check_snapshot(r) ==
    [status |-> "healthy",
     environment |-> getenv(startup_env[r], "ENVIRONMENT", DefaultEnvironment)]

health_check(r) ==
    [status |-> "healthy",
     environment |-> getenv(environ[r], "ENVIRONMENT", DefaultEnvironment)]

\* CORS_ORIGINS read again on each request instead of the module global
test_endpoint_live(r) ==
    [message |-> "CORS is working!",
     origins |-> split(getenv(environ[r], "CORS_ORIGINS", DefaultCorsOrigins))]

test_endpoint(r) ==
    [message |-> "CORS is working!", origins |-> cors_origins[r]]

\* the result of calling the endpoint function a route names
call_endpoint(r, name) ==
    CASE name = "root" -> root(r)
      [] name = "get_users" -> get_users(r)
      [] name = "health_check" -> health_check(r)
      [] name = "test_endpoint" -> test_endpoint(r)

--------------------------------------------------------------------------
(* main.py:6-10, 25-45  the FastAPI application and its router.            *)
(* FastAPI(...) is built with the default docs_url, redoc_url and          *)
(* openapi_url, so the constructor registers the documentation routes      *)
(* before the decorators of lines 25-43 append the four API routes.        *)
(* Routing is Starlette's Router: the first full match is served, a path   *)
(* match with another method is 405, a path matching once its trailing     *)
(* slashes are stripped (or one is appended) is redirected, the rest 404.  *)

\* add_route registers GET and, with it, HEAD
DocRoutes ==
    << [path |-> P_openapi, methods |-> {"GET", "HEAD"}, endpoint |-> "openapi"],
       [path |-> P_docs, methods |-> {"GET", "HEAD"}, endpoint |-> "swagger_ui_html"],
       [path |-> P_oauth2, methods |-> {"GET", "HEAD"}, endpoint |-> "swagger_ui_redirect"],
       [path |-> P_redoc, methods |-> {"GET", "HEAD"}, endpoint |-> "redoc_html"] >>

\* the decorator of /test left out
APIRoutesWithoutTest ==
    << [path |-> P_root, methods |-> {"GET"}, endpoint |-> "root"],
       [path |-> P_users, methods |-> {"GET"}, endpoint |-> "get_users"],
       [path |-> P_health, methods |-> {"GET"}, endpoint |-> "health_check"] >>

\* /health registered for POST as well as GET
APIRoutesHealthPost ==
    << [path |-> P_root, methods |-> {"GET"}, endpoint |-> "root"],
       [path |-> P_users, methods |-> {"GET"}, endpoint |-> "get_users"],
       [path |-> P_health, methods |-> {"GET", "POST"}, endpoint |-> "health_check"],
       [path |-> P_test, methods |-> {"GET"}, endpoint |-> "test_endpoint"] >>

\* @app.get registers GET alone
APIRoutes ==
    << [path |-> P_root, methods |-> {"GET"}, endpoint |-> "root"],
       [path |-> P_users, methods |-> {"GET"}, endpoint |-> "get_users"],
       [path |-> P_health, methods |-> {"GET"}, endpoint |-> "health_check"],
       [path |-> P_test, methods |-> {"GET"}, endpoint |-> "test_endpoint"] >>

routes == DocRoutes \o APIRoutes

IsAPIEndpoint(name) == \E i \in DOMAIN APIRoutes : APIRoutes[i].endpoint = name

matches(route, method, path) ==
    IF route.path # path THEN "NONE"
    ELSE IF method \in route.methods THEN "FULL" ELSE "PARTIAL"

First(S) == CHOOSE i \in S : \A j \in S : i <= j

RECURSIVE rstrip(_)
rstrip(path) ==
    IF path # <<>> /\ path[Len(path)] = "/"
    THEN rstrip(SubSeq(path, 1, Len(path) - 1))
    ELSE path

redirect_path(path) ==
    IF path[Len(path)] = "/" THEN rstrip(path) ELSE path \o <<"/">>

\* the response of the route that fully matched
handle(r, route) ==
    IF IsAPIEndpoint(route.endpoint)
    THEN JSONResponse(200, <<>>, call_endpoint(r, route.endpoint))
    ELSE [status |-> 200,
          media |-> IF route.endpoint = "openapi" THEN "application/json"
                    ELSE "text/html",
          headers |-> <<>>,
          body |-> [document |-> route.endpoint]]

router(r, req) ==
    LET full == {i \in DOMAIN routes :
                    matches(routes[i], req.method, req.path) = "FULL"}
        partial == {i \in DOMAIN routes :
                    matches(routes[i], req.method, req.path) = "PARTIAL"}
        redirect == redirect_path(req.path)
    IN  IF full # {} THEN handle(r, routes[First(full)])
        ELSE IF partial # {}
        THEN JSONResponse(405, ("allow" :> routes[First(partial)].methods),
                          [detail |-> "Method Not Allowed"])
        ELSE IF req.path # P_root
                /\ \E i \in DOMAIN routes :
                      matches(routes[i], req.method, redirect) # "NONE"
        THEN [status |-> 307, media |-> "", headers |-> ("location" :> redirect),
              body |-> <<>>]
        ELSE JSONResponse(404, <<>>, [detail |-> "Not Found"])

--------------------------------------------------------------------------
(* main.py:16-22  app.add_middleware(CORSMiddleware, ...): the arguments   *)
(* of the call, evaluated in run r, and Starlette's CORSMiddleware on them *)

Star == <<"*">>

\* allow_origins wired to the list parsed from CORS_ORIGINS
add_middleware_wired(r) ==
    [allow_origins |-> cors_origins[r],
     allow_credentials |-> TRUE,
     allow_methods |-> <<"*">>,
     allow_headers |-> <<"*">>]

\* allow_origins left at the middleware's default, the empty list
add_middleware_default_origins(r) ==
    [allow_origins |-> <<>>,
     allow_credentials |-> TRUE,
     allow_methods |-> <<"*">>,
     allow_headers |-> <<"*">>]

add_middleware(r) ==
    [allow_origins |-> <<Star>>,
     allow_credentials |-> TRUE,
     allow_methods |-> <<"*">>,
     allow_headers |-> <<"*">>]

ALL_METHODS == <<"DELETE", "GET", "HEAD", "OPTIONS", "PATCH", "POST", "PUT">>

allow_methods(cfg) ==
    IF "*" \in Range(cfg.allow_methods) THEN ALL_METHODS ELSE cfg.allow_methods

allow_all_origins(cfg) == Star \in Range(cfg.allow_origins)

allow_all_headers(cfg) == "*" \in Range(cfg.allow_headers)

preflight_explicit_allow_origin(cfg) ==
    ~allow_all_origins(cfg) \/ cfg.allow_credentials

is_allowed_origin(cfg, origin) ==
    allow_all_origins(cfg) \/ origin \in Range(cfg.allow_origins)

simple_headers(cfg) ==
    (IF allow_all_origins(cfg)
     THEN ("access-control-allow-origin" :> Star) ELSE <<>>)
    @@ (IF cfg.allow_credentials
        THEN ("access-control-allow-credentials" :> "true") ELSE <<>>)

preflight_headers(cfg) ==
    (IF preflight_explicit_allow_origin(cfg)
     THEN ("vary" :> "Origin")
     ELSE ("access-control-allow-origin" :> Star))
    @@ ("access-control-allow-methods" :> allow_methods(cfg))
    @@ ("access-control-max-age" :> "600")
    @@ (IF ~allow_all_headers(cfg)
        THEN ("access-control-allow-headers" :> cfg.allow_headers) ELSE <<>>)
    @@ (IF cfg.allow_credentials
        THEN ("access-control-allow-credentials" :> "true") ELSE <<>>)

preflight_response(cfg, request_headers) ==
    LET requested_origin == request_headers["origin"]
        requested_method == request_headers["access-control-request-method"]
        origin_ok == is_allowed_origin(cfg, requested_origin)
        method_ok == requested_method \in Range(allow_methods(cfg))
        headers ==
            (IF origin_ok /\ preflight_explicit_allow_origin(cfg)
             THEN ("access-control-allow-origin" :> requested_origin) ELSE <<>>)
            @@ (IF allow_all_headers(cfg)
                   /\ "access-control-request-headers" \in DOMAIN request_headers
                THEN ("access-control-allow-headers"
                        :> request_headers["access-control-request-headers"])
                ELSE <<>>)
            @@ preflight_headers(cfg)
    IN  IF origin_ok /\ method_ok
        THEN PlainTextResponse(200, headers, <<"OK">>)
        ELSE PlainTextResponse(400, headers,
                 <<"Disallowed CORS">>
                 \o (IF origin_ok THEN <<>> ELSE <<"origin">>)
                 \o (IF method_ok THEN <<>> ELSE <<"method">>))

\* the headers CORSMiddleware.send adds to the response of the inner app
simple_response(cfg, request_headers, response) ==
    LET origin == request_headers["origin"]
        explicit ==
            \/ allow_all_origins(cfg) /\ "cookie" \in DOMAIN request_headers
            \/ ~allow_all_origins(cfg) /\ is_allowed_origin(cfg, origin)
        added ==
            (IF explicit
             THEN ("access-control-allow-origin" :> origin) @@ ("vary" :> "Origin")
             ELSE <<>>)
            @@ simple_headers(cfg)
    IN  [response EXCEPT !.headers = added @@ response.headers]

\* CORSMiddleware.__call__ around the router
app(r, req) ==
    LET cfg == add_middleware(r) IN
    IF "origin" \notin DOMAIN req.headers THEN router(r, req)
    ELSE IF req.method = "OPTIONS"
            /\ "access-control-request-method" \in DOMAIN req.headers
    THEN preflight_response(cfg, req.headers)
    ELSE simple_response(cfg, req.headers, router(r, req))

--------------------------------------------------------------------------
(* The processes *)

\* startup that refuses a CORS_ORIGINS value with an empty item
StartupValidating(r) ==
    /\ pc[r] = "boot"
    /\ <<>> \notin Range(split(getenv(environ[r], "CORS_ORIGINS", DefaultCorsOrigins)))
    /\ cors_origins' = [cors_origins EXCEPT
            ![r] = split(getenv(environ[r], "CORS_ORIGINS", DefaultCorsOrigins))]
    /\ startup_env' = [startup_env EXCEPT ![r] = environ[r]]
    /\ pc' = [pc EXCEPT ![r] = "serving"]
    /\ UNCHANGED <<environ, client>>

\* import of main.py: line 13 reads CORS_ORIGINS once, lines 16-45 register
\* the middleware and the routes
Startup(r) ==
    /\ pc[r] = "boot"
    /\ cors_origins' = [cors_origins EXCEPT
            ![r] = split(getenv(environ[r], "CORS_ORIGINS", DefaultCorsOrigins))]
    /\ startup_env' = [startup_env EXCEPT ![r] = environ[r]]
    /\ pc' = [pc EXCEPT ![r] = "serving"]
    /\ UNCHANGED <<environ, client>>

\* client c sends request req to run r
Send(r, c, req) ==
    /\ pc[r] = "serving"
    /\ client[r][c].st # "waiting"
    /\ client' = [client EXCEPT ![r][c] =
                      [st |-> "waiting", req |-> req, resp |-> NoResp]]
    /\ UNCHANGED <<pc, environ, cors_origins, startup_env>>

\* serving /test appends the caller's origin to the module's list
RespondAppending(r, c) ==
    /\ pc[r] = "serving"
    /\ client[r][c].st = "waiting"
    /\ client' = [client EXCEPT ![r][c] =
                      [st |-> "got", req |-> client[r][c].req,
                       resp |-> app(r, client[r][c].req)]]
    /\ cors_origins' = [cors_origins EXCEPT ![r] =
            IF client[r][c].req.path = P_test /\ Len(@) < 3
            THEN Append(@, <<"a">>) ELSE @]
    /\ UNCHANGED <<pc, environ, startup_env>>

\* run r serves the request of client c
Respond(r, c) ==
    /\ pc[r] = "serving"
    /\ client[r][c].st = "waiting"
    /\ client' = [client EXCEPT ![r][c] =
                      [st |-> "got", req |-> client[r][c].req,
                       resp |-> app(r, client[r][c].req)]]
    /\ UNCHANGED <<pc, environ, cors_origins, startup_env>>

\* os.environ[name] = value in the serving process
SetEnv(r, name, value) ==
    /\ pc[r] = "serving"
    /\ environ' = [environ EXCEPT ![r] = (name :> value) @@ environ[r]]
    /\ UNCHANGED <<pc, cors_origins, startup_env, client>>

\* del os.environ[name] in the serving process
UnsetEnv(r, name) ==
    /\ pc[r] = "serving"
    /\ name \in DOMAIN environ[r]
    /\ environ' = [environ EXCEPT
            ![r] = [n \in DOMAIN environ[r] \ {name} |-> environ[r][n]]]
    /\ UNCHANGED <<pc, cors_origins, startup_env, client>>

\* the same request sent to both runs
SendBoth(c, req) ==
    /\ \A r \in Runs : pc[r] = "serving" /\ client[r][c].st # "waiting"
    /\ client' = [r \in Runs |-> [client[r] EXCEPT ![c] =
                      [st |-> "waiting", req |-> req, resp |-> NoResp]]]
    /\ UNCHANGED <<pc, environ, cors_origins, startup_env>>

\* one process, started in any environment; run 2 is never started
Init ==
    /\ pc = [r \in Runs |-> "boot"]
    /\ \E e \in Environs : environ = [r \in Runs |-> IF r = 1 THEN e ELSE EmptyEnv]
    /\ cors_origins = [r \in Runs |-> <<>>]
    /\ startup_env = [r \in Runs |-> <<>>]
    /\ client = [r \in Runs |-> [c \in Clients |-> Idle]]

\* one client, every request, a fixed environment
Next ==
    \/ Startup(1)
    \/ \E req \in Requests : Send(1, "c1", req)
    \/ Respond(1, "c1")

Spec == Init /\ [][Next]_vars

\* the environment changes while one client gets the endpoints
NextEnv ==
    \/ Startup(1)
    \/ \E req \in EndpointGets : Send(1, "c1", req)
    \/ Respond(1, "c1")
    \/ \E n \in EnvNames : \E v \in EnvValues(n) : SetEnv(1, n, v)
    \/ \E n \in EnvNames : UnsetEnv(1, n)

SpecEnv == Init /\ [][NextEnv]_vars

\* two clients get the endpoints concurrently, a fixed environment
NextConc ==
    \/ Startup(1)
    \/ \E c \in Clients : \E req \in EndpointGets : Send(1, c, req)
    \/ \E c \in Clients : Respond(1, c)

SpecConc == Init /\ [][NextConc]_vars

\* two processes whose environments differ in CORS_ORIGINS at most
InitPair ==
    /\ pc = [r \in Runs |-> "boot"]
    /\ environ \in [Runs -> Environs]
    /\ \A n \in EnvNames \ {"CORS_ORIGINS"} :
          /\ n \in DOMAIN environ[1] <=> n \in DOMAIN environ[2]
          /\ n \in DOMAIN environ[1] => environ[1][n] = environ[2][n]
    /\ cors_origins = [r \in Runs |-> <<>>]
    /\ startup_env = [r \in Runs |-> <<>>]
    /\ client = [r \in Runs |-> [c \in Clients |-> Idle]]

NextPair ==
    \/ \E r \in Runs : Startup(r)
    \/ \E req \in Requests : SendBoth("c1", req)
    \/ \E r \in Runs : Respond(r, "c1")

SpecPair == InitPair /\ [][NextPair]_vars

--------------------------------------------------------------------------
(* Properties *)

Got(r, c) == client[r][c].st = "got"

\* client c of run 1 is served in this step
Served(c) == client[1][c].st = "waiting" /\ client'[1][c].st = "got"

IsGet(req, path) == req.method = "GET" /\ req.path = path

IsPreflight(req) ==
    /\ req.method = "OPTIONS"
    /\ "origin" \in DOMAIN req.headers
    /\ "access-control-request-method" \in DOMAIN req.headers

IsSet(env, name) == name \in DOMAIN env

RECURSIVE Join(_)
Join(list) ==
    IF Len(list) = 1 THEN list[1]
    ELSE list[1] \o <<",">> \o Join(Tail(list))

\* list is s cut at its commas: nothing added, dropped, trimmed or reordered
IsSplitOf(list, s) ==
    /\ Len(list) >= 1
    /\ \A i \in DOMAIN list : "," \notin Range(list[i])
    /\ Join(list) = s

Commas(s) == Cardinality({i \in DOMAIN s : s[i] = ","})

\* body is what the documented route table gives the endpoint in environment env
IsDocumentedBody(body, path, env) ==
    CASE path = P_root ->
           body = [message |-> "FastAPI backend is running (rocket)",
                   status |-> "healthy"]
      [] path = P_users ->
           body = << [id |-> 1, name |-> <<"N","i","k">>,
                      email |-> <<"n","i","k","@","e","x","a","m","p","l","e",
                                  ".","c","o","m">>],
                     [id |-> 2, name |-> <<"K","e","v">>,
                      email |-> <<"k","e","v","@","e","x","a","m","p","l","e",
                                  ".","c","o","m">>] >>
      [] path = P_health ->
           body = [status |-> "healthy",
                   environment |-> IF IsSet(env, "ENVIRONMENT")
                                   THEN env["ENVIRONMENT"] ELSE "unknown"]
      [] path = P_test ->
           /\ DOMAIN body = {"message", "origins"}
           /\ body.message = "CORS is working!"
           /\ IF IsSet(env, "CORS_ORIGINS")
              THEN IsSplitOf(body.origins, env["CORS_ORIGINS"])
              ELSE body.origins = <<DefaultCorsOrigins>>

\* C1 (as stated): after any change of the environment, every response of
\* GET /, /users, /health and /test equals the response the endpoint gives
\* from the values the environment had at startup.
C1_StartupSnapshot ==
    \A c \in Clients :
        (Got(1, c) /\ client[1][c].req.method = "GET"
                   /\ client[1][c].req.path \in Endpoints)
        => IsDocumentedBody(client[1][c].resp.body, client[1][c].req.path,
                            startup_env[1])

\* C1 (amended): CORS_ORIGINS is read once at startup and ENVIRONMENT on each
\* request: whatever the environment is changed to, GET /, /users and /test
\* answer as from the startup values, and GET /health answers from the value
\* ENVIRONMENT has when the request is served.
C1_SnapshotExceptHealth ==
    [][\A c \in Clients :
          (Served(c) /\ client[1][c].req.method = "GET"
                     /\ client[1][c].req.path \in Endpoints)
          => IsDocumentedBody(client'[1][c].resp.body, client[1][c].req.path,
                              IF client[1][c].req.path = P_health
                              THEN environ[1] ELSE startup_env[1])]_vars

\* both variables were changed after startup, and /health and /test were got
C1_Witness ==
    /\ IsSet(startup_env[1], "ENVIRONMENT") /\ startup_env[1]["ENVIRONMENT"] = "staging"
    /\ ~IsSet(environ[1], "ENVIRONMENT")
    /\ ~IsSet(startup_env[1], "CORS_ORIGINS")
    /\ IsSet(environ[1], "CORS_ORIGINS") /\ environ[1]["CORS_ORIGINS"] = <<",">>
    /\ Got(1, "c1") /\ IsGet(client[1]["c1"].req, P_test)
    /\ client[1]["c1"].resp.body.origins = <<DefaultCorsOrigins>>

\* C2: GET /health returns exactly status = "healthy" and environment = the
\* value ENVIRONMENT has when the request is served, the empty string
\* included, or "unknown" when it is unset.
C2_HealthReportsEnvironment ==
    [][\A c \in Clients :
          (Served(c) /\ IsGet(client[1][c].req, P_health))
          => LET resp == client'[1][c].resp IN
             /\ resp.status = 200
             /\ DOMAIN resp.body = {"status", "environment"}
             /\ resp.body.status = "healthy"
             /\ IsSet(environ[1], "ENVIRONMENT")
                  => resp.body.environment = environ[1]["ENVIRONMENT"]
             /\ ~IsSet(environ[1], "ENVIRONMENT")
                  => resp.body.environment = "unknown"]_vars

\* /health answered with the empty string ENVIRONMENT was set to after a
\* startup without it
C2_Witness ==
    /\ ~IsSet(startup_env[1], "ENVIRONMENT")
    /\ IsSet(environ[1], "ENVIRONMENT") /\ environ[1]["ENVIRONMENT"] = ""
    /\ Got(1, "c1") /\ IsGet(client[1]["c1"].req, P_health)
    /\ client[1]["c1"].resp.body.environment = ""

\* C3: GET /test returns message = "CORS is working!" and origins = the
\* CORS_ORIGINS value cut at its commas, in order, nothing trimmed or
\* dropped, or ["http://localhost:5173"] when CORS_ORIGINS is unset;
\* "https://a.com,https://b.com" gives ["https://a.com", "https://b.com"].
C3_TestEchoesSplitOrigins ==
    \A c \in Clients :
        (Got(1, c) /\ IsGet(client[1][c].req, P_test))
        => LET resp == client[1][c].resp
               env == environ[1]
           IN  /\ resp.status = 200
               /\ DOMAIN resp.body = {"message", "origins"}
               /\ resp.body.message = "CORS is working!"
               /\ IsSet(env, "CORS_ORIGINS")
                    => IsSplitOf(resp.body.origins, env["CORS_ORIGINS"])
               /\ ~IsSet(env, "CORS_ORIGINS")
                    => resp.body.origins = <<DefaultCorsOrigins>>
               /\ (IsSet(env, "CORS_ORIGINS") /\ env["CORS_ORIGINS"] = ExampleCors)
                    => resp.body.origins = <<ExampleOriginA, ExampleOriginB>>

\* /test was got in the documented scenario
C3_Witness ==
    /\ IsSet(environ[1], "CORS_ORIGINS") /\ environ[1]["CORS_ORIGINS"] = ExampleCors
    /\ Got(1, "c1") /\ IsGet(client[1]["c1"].req, P_test)
    /\ Len(client[1]["c1"].resp.body.origins) = 2

\* the two runs of SpecPair answered the same request of client c
BothGot(c) ==
    /\ Got(1, c) /\ Got(2, c)
    /\ client[1][c].req = client[2][c].req

\* C4: the CORS policy does not depend on CORS_ORIGINS: in two runs that
\* differ only in CORS_ORIGINS every request gets the same status and the
\* same response headers, and the only response that differs is the
\* origins field of GET /test.
C4_CorsPolicyIgnoresCorsOrigins ==
    \A c \in Clients :
        BothGot(c)
        => LET req == client[1][c].req
               one == client[1][c].resp
               two == client[2][c].resp
           IN  /\ one.status = two.status
               /\ one.headers = two.headers
               /\ one.media = two.media
               /\ (IsGet(req, P_test) /\ one.status = 200)
                    => /\ DOMAIN one.body = DOMAIN two.body
                       /\ [one.body EXCEPT !.origins = <<>>]
                            = [two.body EXCEPT !.origins = <<>>]
               /\ ~IsGet(req, P_test) => one.body = two.body

\* a preflight from an origin that only one of the two CORS_ORIGINS lists
\* was answered by both runs
C4_Witness ==
    /\ BothGot("c1")
    /\ IsPreflight(client[1]["c1"].req)
    /\ client[1]["c1"].req.headers["origin"] \in Range(cors_origins[1])
    /\ client[1]["c1"].req.headers["origin"] \notin Range(cors_origins[2])

\* C5: an OPTIONS preflight to any path, from any origin, is answered with
\* an Access-Control-Allow-Origin header allowing that origin, whether or
\* not the origin is in the list parsed from CORS_ORIGINS.
C5_PreflightAllowsAnyOrigin ==
    \A c \in Clients :
        (Got(1, c) /\ IsPreflight(client[1][c].req))
        => LET resp == client[1][c].resp IN
           /\ "access-control-allow-origin" \in DOMAIN resp.headers
           /\ resp.headers["access-control-allow-origin"]
                \in {client[1][c].req.headers["origin"], Star}

\* a preflight to a route from an origin outside the configured list
C5_Witness ==
    /\ IsSet(environ[1], "CORS_ORIGINS")
    /\ Got(1, "c1") /\ IsPreflight(client[1]["c1"].req)
    /\ client[1]["c1"].req.path = P_users
    /\ client[1]["c1"].req.headers["origin"] \notin Range(cors_origins[1])
    /\ client[1]["c1"].resp.status = 200

\* C6: in every interleaving of requests to the four endpoints, any two
\* responses to the same endpoint carry the same status and the same JSON
\* body: no request changes what a later or concurrent one returns.
C6_ResponsesRepeat ==
    \A c \in Clients, d \in Clients :
        (Got(1, c) /\ Got(1, d) /\ client[1][c].req.path = client[1][d].req.path)
        => /\ client[1][c].resp.status = client[1][d].resp.status
           /\ client[1][c].resp.media = client[1][d].resp.media
           /\ client[1][c].resp.body = client[1][d].resp.body

\* both clients hold an answer of /test, one asked with an Origin header
\* and one without
C6_Witness ==
    /\ Got(1, "c1") /\ Got(1, "c2")
    /\ client[1]["c1"].req.path = P_test /\ client[1]["c2"].req.path = P_test
    /\ client[1]["c1"].req # client[1]["c2"].req
    /\ IsSet(environ[1], "CORS_ORIGINS")

\* C7: GET /users returns exactly two records, id 1 then id 2, each with
\* exactly the fields id, name and email, the ids integers unique in the
\* list, the names non-empty, the emails containing "@", in every
\* environment and after any earlier requests.
C7_UsersFixed ==
    \A c \in Clients :
        (Got(1, c) /\ IsGet(client[1][c].req, P_users))
        => LET users == client[1][c].resp.body IN
           /\ client[1][c].resp.status = 200
           /\ Len(users) = 2
           /\ users[1].id = 1 /\ users[2].id = 2
           /\ \A i \in DOMAIN users :
                 /\ DOMAIN users[i] = {"id", "name", "email"}
                 /\ users[i].id \in Nat
                 /\ users[i].name # <<>>
                 /\ "@" \in Range(users[i].email)
           /\ \A i \in DOMAIN users, j \in DOMAIN users :
                 users[i].id = users[j].id => i = j

\* /users was got by a process started with both variables set
C7_Witness ==
    /\ IsSet(environ[1], "CORS_ORIGINS") /\ IsSet(environ[1], "ENVIRONMENT")
    /\ Got(1, "c1") /\ IsGet(client[1]["c1"].req, P_users)
    /\ Len(client[1]["c1"].resp.body) = 2

\* C8: every GET of /, /users, /health or /test is answered 200 with a JSON
\* body, for every value of ENVIRONMENT and CORS_ORIGINS, set or unset;
\* GET / returns status = "healthy" and the fixed banner as message.
C8_EndpointsAlwaysOk ==
    \A c \in Clients :
        (Got(1, c) /\ client[1][c].req.method = "GET"
                   /\ client[1][c].req.path \in Endpoints)
        => LET resp == client[1][c].resp IN
           /\ resp.status = 200
           /\ resp.media = "application/json"
           /\ client[1][c].req.path = P_root
                => /\ resp.body.status = "healthy"
                   /\ resp.body.message = "FastAPI backend is running (rocket)"

\* /test was got by a process started with neither variable set
C8_Witness ==
    /\ environ[1] = EmptyEnv
    /\ Got(1, "c1") /\ IsGet(client[1]["c1"].req, P_test)
    /\ client[1]["c1"].resp.status = 200

IsRoutePath(path) == \E i \in DOMAIN routes : routes[i].path = path

\* C9 (as stated): a request whose path is not /, /users, /health or /test
\* gets 404, and a request to one of these paths with a method other than
\* GET gets 405.
C9_OnlyFourRoutes ==
    \A c \in Clients :
        Got(1, c)
        => LET req == client[1][c].req
               resp == client[1][c].resp
           IN  /\ req.path \notin Endpoints => resp.status = 404
               /\ (req.path \in Endpoints /\ req.method # "GET")
                    => resp.status = 405

\* C9 (amended): a request that is not a CORS preflight is matched against
\* the four API routes and the documentation routes FastAPI registers by
\* default (/openapi.json, /docs, /docs/oauth2-redirect, /redoc): if its
\* path is none of these, nor one of them followed by slashes (which is
\* redirected with 307), it gets 404; if its path is one of the four API
\* paths and its method is not GET it gets 405; in both cases the body is
\* the framework's error detail and no state of the process changes.
\* A preflight is answered by the CORS middleware without being routed.
C9_RoutingOutcomes ==
    [][\A c \in Clients :
          (Served(c) /\ ~IsPreflight(client[1][c].req))
          => LET req == client[1][c].req
                 resp == client'[1][c].resp
             IN  /\ (~IsRoutePath(req.path) /\ ~IsRoutePath(rstrip(req.path)))
                      => /\ resp.status = 404
                         /\ resp.body = [detail |-> "Not Found"]
                 /\ (req.path \in Endpoints /\ req.method # "GET")
                      => /\ resp.status = 405
                         /\ resp.body = [detail |-> "Method Not Allowed"]
                 /\ (resp.status = 404 \/ resp.status = 405)
                      => UNCHANGED <<pc, environ, cors_origins, startup_env>>]_vars

\* an unknown path was answered 404 to a cross-origin POST
C9_Witness ==
    /\ Got(1, "c1")
    /\ client[1]["c1"].req.method = "POST"
    /\ client[1]["c1"].req.path = <<"/", "nope">>
    /\ "origin" \in DOMAIN client[1]["c1"].req.headers
    /\ client[1]["c1"].resp.status = 404

\* the value is not a comma-separated list of origins: it is empty, holds a
\* blank, or has an empty item
Malformed(v) ==
    \/ v = <<>>
    \/ " " \in Range(v)
    \/ v[1] = "," \/ v[Len(v)] = ","
    \/ \E i \in 1..(Len(v) - 1) : v[i] = "," /\ v[i + 1] = ","

\* C10 (as stated): a malformed CORS_ORIGINS value is split into a
\* single-element list that GET /test echoes back.
C10_MalformedIsSingleElement ==
    \A c \in Clients :
        (/\ Got(1, c) /\ IsGet(client[1][c].req, P_test)
         /\ IsSet(environ[1], "CORS_ORIGINS")
         /\ Malformed(environ[1]["CORS_ORIGINS"]))
        => client[1][c].resp.body.origins = <<environ[1]["CORS_ORIGINS"]>>

\* C10 (amended): CORS_ORIGINS is never validated or rejected: for every
\* string value startup succeeds and the value is cut at its commas into
\* (number of commas + 1) elements, a single element holding the whole
\* value exactly when the value has no comma; GET /test echoes that list.
C10_UnvalidatedSplit ==
    /\ pc[1] = "boot" => ENABLED Startup(1)
    /\ (pc[1] = "serving" /\ IsSet(environ[1], "CORS_ORIGINS"))
         => LET v == environ[1]["CORS_ORIGINS"] IN
            /\ Len(cors_origins[1]) = Commas(v) + 1
            /\ Commas(v) = 0 <=> cors_origins[1] = <<v>>
            /\ \A c \in Clients :
                  (Got(1, c) /\ IsGet(client[1][c].req, P_test))
                  => /\ client[1][c].resp.status = 200
                     /\ client[1][c].resp.body.origins = cors_origins[1]

\* /test echoed the two empty items of the value ","
C10_Witness ==
    /\ IsSet(environ[1], "CORS_ORIGINS") /\ environ[1]["CORS_ORIGINS"] = <<",">>
    /\ Got(1, "c1") /\ IsGet(client[1]["c1"].req, P_test)
    /\ client[1]["c1"].resp.body.origins = << <<>>, <<>> >>

====
